---- MODULE Spec2Model ----
(***************************************************************************)
(* Fixed-timestep physics clock of bevy-rapier-sim-time: src/time.rs (the  *)
(* clock, the schedule runner and the physics_fps diagnostic), the restart *)
(* handling of src/main.rs and the control surface of src/ui.rs.           *)
(*                                                                         *)
(* Durations are whole nanoseconds, as in std::time::Duration.              *)
(* Duration::mul_f32 goes through f32 seconds and is modelled with that    *)
(* rounding; the speeds drawn below are powers of two.                     *)
(***************************************************************************)
EXTENDS Integers, Sequences, FiniteSets, TLC

VARIABLES
    time,         \* PhysicsTime = Time<PhysicsTimeInner>: [elapsed, context]
    events,       \* an unread RestartEvent is queued
    frame_count,  \* DiagnosticFrameCount.0
    queued,       \* measurement of physics_fps queued by diagnostics_report, if any
    store,        \* the physics_fps Diagnostic: [history, sum]
    pc,           \* position of the host frame
    delta,        \* delta of the host frame in progress
    spent,        \* time.elapsed() since the Instant taken by run_physics_schedule
    frames,       \* host frames started
    last,         \* last command or handler that acted
    pre,          \* the clock when the handler in progress was entered
    steps,        \* runs of PhysicsSchedule in the run_physics_schedule call in progress
    costs,        \* wall time of each of those runs
    runs,         \* runs of PhysicsSchedule since the clock was last reset
    last_run,     \* <<speed>> of the last run() since the clock was last reset
    recorded,     \* <<frame_count, delta>> of each measurement in store.history
    after_tick    \* how far the clock is along step() on a Running clock with
                  \* time left over, the tick consumed, resume(), the next frame

vars  == <<time, events, frame_count, queued, store, pc, delta, spent, frames, last,
           pre, steps, costs, runs, last_run, recorded, after_tick>>

\* the fields of the clock
mode == time.context.mode

old_mode == time.context.old_mode

timestep == time.context.timestep

overstep == time.context.overstep

elapsed == time.elapsed

----------------------------------------------------------------------------
(* Constants of the program *)

NANOS_PER_SEC == 1000000000

\* Duration::from_micros(15625), in nanoseconds
DEFAULT_TIMESTEP == 15625000

MAX_PHYSICS_EXEC_TIME == 15625000

\* Diagnostic::new(PHYSICS_FPS, "physics_fps", 10)
MAX_HISTORY_LENGTH == 10

\* Duration::MAX.  The real value (u64::MAX s + 999999999 ns) is beyond the
\* integers of the model checker; this one is 128 timesteps, above every
\* other duration of the model, and all sums below stay under 2^31.
DURATION_MAX == 2000000000

----------------------------------------------------------------------------
(* Bounds *)

MaxFrames == 3

MaxDiagCount == 60

----------------------------------------------------------------------------
(* f32 speeds: [k |-> "fin", q |-> n] is the speed n / 2; INFINITY and     *)
(* F32_MAX are f32::INFINITY and f32::MAX                                  *)

Fin(n) == [k |-> "fin", q |-> n]

INFINITY == [k |-> "inf", q |-> 0]

F32_MAX == [k |-> "max", q |-> 0]

\* 1.0, 2.0, +inf, and two speeds Duration::mul_f32 cannot take: -1.0, f32::MAX
Speeds == {Fin(2), Fin(4), INFINITY, Fin(-2), F32_MAX}

\* Time<Virtual>::delta() of a host frame; all at most 250 ms, where it
\* equals Time<Real>::delta()
Deltas == {0, DEFAULT_TIMESTEP \div 2, 4 * DEFAULT_TIMESTEP}

\* deltas whose seconds are not an f32: 16 ms, and the delta that is a
\* nanosecond short of making two timesteps with it
UnevenDeltas == {16000000, 2 * DEFAULT_TIMESTEP - 16000000 - 1}

\* wall time one run of PhysicsSchedule can take
RunCosts == {MAX_PHYSICS_EXEC_TIME \div 4, MAX_PHYSICS_EXEC_TIME}

----------------------------------------------------------------------------
(* PhysicsTimeMode *)

Paused == [tag |-> "Paused"]

OneTick == [tag |-> "OneTick"]

Running(s) == [tag |-> "Running", speed |-> s]

\* impl Default for PhysicsTimeMode
DefaultMode == Running(Fin(2))

----------------------------------------------------------------------------
(* std::time::Duration *)

Min(a, b) == IF a <= b THEN a ELSE b

saturating_add(a, b) == Min(a + b, DURATION_MAX)

\* a checked_sub that is None on equal durations
checked_sub_strict(a, b) == IF a > b THEN <<a - b>> ELSE <<>>

\* Option<Duration>: <<d>> is Some(d), <<>> is None
checked_sub(a, b) == IF a >= b THEN <<a - b>> ELSE <<>>

\* Duration::mul_f32 panics when the product is negative, not finite or
\* above Duration::MAX
mul_f32_panics(d, s) ==
    CASE s.k = "max" -> d > 0
      [] s.k = "inf" -> TRUE
      [] OTHER -> \/ d * s.q < 0
                  \/ (d * s.q) \div 2 > DURATION_MAX

RECURSIVE Pow2(_)
Pow2(n) == IF n = 0 THEN 1 ELSE 2 * Pow2(n - 1)

RECURSIVE Log2(_)
Log2(n) == IF n <= 1 THEN 0 ELSE 1 + Log2(n \div 2)

\* f32::MANTISSA_DIGITS
F32_MANTISSA_DIGITS == 24

\* a / 2^sh rounded to the nearest integer r, a tie to the r that makes
\* base + r even; |a| is below 2^30
RoundHalfEven(a, sh, base) ==
    IF sh = 0 THEN a
    ELSE IF sh > 30 THEN 0
    ELSE LET p == Pow2(sh)
             f == IF a >= 0 THEN a \div p ELSE -((-a + p - 1) \div p)
             rem == a - f * p
             half == p \div 2
         IN  IF rem > half THEN f + 1
             ELSE IF rem < half THEN f
             ELSE IF (base + f) % 2 = 0 THEN f ELSE f + 1

\* n as f32, for 0 <= n < 2^30: the nearest integer of 24 significant bits
u32_as_f32(n) ==
    LET sh == Log2(n) + 1 - F32_MANTISSA_DIGITS
    IN  IF sh <= 0 THEN n ELSE RoundHalfEven(n, sh, 0) * Pow2(sh)

\* <<y, j>> with y = x * 2^j the first doubling of x > 0 that reaches a second
RECURSIVE Normalized(_, _)
Normalized(y, j) ==
    IF y >= NANOS_PER_SEC THEN <<y, j>> ELSE Normalized(2 * y, j + 1)

\* (r * 2^n) % NANOS_PER_SEC for 0 <= r < NANOS_PER_SEC
RECURSIVE ShiftedRemainder(_, _)
ShiftedRemainder(r, n) ==
    IF n = 0 \/ r = 0 THEN r
    ELSE ShiftedRemainder((2 * r) % NANOS_PER_SEC, n - 1)

\* Duration::as_secs_f32 of x nanoseconds, 0 < x <= 1 s, x an f32: the
\* quotient x / 1e9 rounded to f32 is M / 2^k with M of 24 bits; the
\* result is <<x * 2^k - M * 1e9, k>>, the quotient being kept by what it
\* misses of x
as_secs_f32(x) ==
    LET n == Normalized(x, 0)
        k == n[2] + F32_MANTISSA_DIGITS - 1
        rr == ShiftedRemainder(n[1] - NANOS_PER_SEC, F32_MANTISSA_DIGITS - 1)
    IN  <<IF 2 * (rr \div 2) + (rr % 2) <= NANOS_PER_SEC \div 2
          THEN rr ELSE rr - NANOS_PER_SEC, k>>

\* Duration::mul_f32, where it does not panic, for d under a second and a
\* speed 1.0, 2.0, 4.0, ... (the product of the f32 speed and the f32
\* seconds is then exact): Duration::from_secs_f32(speed * d.as_secs_f32()),
\* which rounds to the nearest nanosecond, a tie to the even one
mul_f32(d, s) ==
    IF s.k # "fin" \/ d <= 0 \/ s.q < 2 THEN 0
    ELSE LET x == u32_as_f32(d)
             q == as_secs_f32(x)
             whole == x * (s.q \div 2)
             sh == q[2] + 1 - Log2(s.q)
         IN  whole + RoundHalfEven(-q[1], sh, whole)

----------------------------------------------------------------------------
(* PhysicsTimeInner and PhysicsTimeExt *)

\* a set_mode that remembers every mode, not only the Running ones
set_mode_any(context, m) ==
    [context EXCEPT !.old_mode = m, !.mode = m]

set_mode(context, m) ==
    [context EXCEPT !.old_mode = IF m.tag = "Running" THEN m ELSE @,
                    !.mode = m]

pause(t) == [t EXCEPT !.context = set_mode(@, Paused)]

resume(t) == [t EXCEPT !.context = set_mode(@, t.context.old_mode)]

step(t) == [t EXCEPT !.context = set_mode(@, OneTick)]

run(t, speed) == [t EXCEPT !.context = set_mode(@, Running(speed))]

\* impl Default for PhysicsTimeInner
PhysicsTimeInner_default ==
    [mode     |-> DefaultMode,
     old_mode |-> DefaultMode,
     timestep |-> DEFAULT_TIMESTEP,
     overstep |-> 0]

\* PhysicsTime::default()
PhysicsTime_default == [elapsed |-> 0, context |-> PhysicsTimeInner_default]

\* Time::advance_by
advance_by(t, d) == [t EXCEPT !.elapsed = @ + d]

----------------------------------------------------------------------------
(* The clock operations of run_physics_schedule *)

\* an accumulate_time that does not look at the mode
accumulate_time_always(t, d) ==
    [t EXCEPT !.context.overstep = saturating_add(@, d)]

\* an accumulate_time for which the infinite speed adds the delta once
accumulate_time_infinity_as_one(t, d) ==
    CASE t.context.mode.tag = "Paused" -> t
      [] t.context.mode.tag = "OneTick" -> t
      [] t.context.mode.tag = "Running" ->
            IF t.context.mode.speed = INFINITY
            THEN [t EXCEPT !.context.overstep = saturating_add(@, d)]
            ELSE [t EXCEPT !.context.overstep =
                      saturating_add(@, mul_f32(d, t.context.mode.speed))]

accumulate_time_panics(t, d) ==
    /\ t.context.mode.tag = "Running"
    /\ t.context.mode.speed # INFINITY
    /\ mul_f32_panics(d, t.context.mode.speed)

accumulate_time(t, d) ==
    CASE t.context.mode.tag = "Paused" -> t
      [] t.context.mode.tag = "OneTick" -> t
      [] t.context.mode.tag = "Running" ->
            IF t.context.mode.speed = INFINITY
            THEN [t EXCEPT !.context.overstep = DURATION_MAX]
            ELSE [t EXCEPT !.context.overstep =
                      saturating_add(@, mul_f32(d, t.context.mode.speed))]

\* an expend_time that advances the clock only for a step of a Running clock
expend_time_no_tick_advance(t) ==
    LET context == t.context
        sub == checked_sub(context.overstep, context.timestep)
    IN  CASE context.mode.tag = "Paused" -> [time |-> t, result |-> FALSE]
          [] context.mode.tag = "OneTick" ->
                [time   |-> [t EXCEPT !.context.mode = Paused,
                                      !.context.overstep = 0],
                 result |-> TRUE]
          [] context.mode.tag = "Running" ->
                IF sub # <<>>
                THEN [time   |-> advance_by([t EXCEPT !.context.overstep = sub[1]],
                                            context.timestep),
                      result |-> TRUE]
                ELSE [time |-> t, result |-> FALSE]

\* an expend_time whose OneTick leaves the mode as it is
expend_time_tick_stays(t) ==
    LET context == t.context
        sub == checked_sub(context.overstep, context.timestep)
    IN  CASE context.mode.tag = "Paused" -> [time |-> t, result |-> FALSE]
          [] context.mode.tag = "OneTick" ->
                [time   |-> advance_by([t EXCEPT !.context.overstep = 0],
                                       context.timestep),
                 result |-> TRUE]
          [] context.mode.tag = "Running" ->
                IF sub # <<>>
                THEN [time   |-> advance_by([t EXCEPT !.context.overstep = sub[1]],
                                            context.timestep),
                      result |-> TRUE]
                ELSE [time |-> t, result |-> FALSE]

\* an expend_time that treats a Paused clock as a Running one
expend_time_paused_as_running(t) ==
    LET context == t.context
        sub == checked_sub(context.overstep, context.timestep)
    IN  CASE context.mode.tag = "OneTick" ->
                [time   |-> advance_by([t EXCEPT !.context.mode = Paused,
                                                 !.context.overstep = 0],
                                       context.timestep),
                 result |-> TRUE]
          [] OTHER ->
                IF sub # <<>>
                THEN [time   |-> advance_by([t EXCEPT !.context.overstep = sub[1]],
                                            context.timestep),
                      result |-> TRUE]
                ELSE [time |-> t, result |-> FALSE]

\* an expend_time whose OneTick keeps the overstep
expend_time_tick_keeps_overstep(t) ==
    LET context == t.context
        sub == checked_sub(context.overstep, context.timestep)
    IN  CASE context.mode.tag = "Paused" -> [time |-> t, result |-> FALSE]
          [] context.mode.tag = "OneTick" ->
                [time   |-> advance_by([t EXCEPT !.context.mode = Paused],
                                       context.timestep),
                 result |-> TRUE]
          [] context.mode.tag = "Running" ->
                IF sub # <<>>
                THEN [time   |-> advance_by([t EXCEPT !.context.overstep = sub[1]],
                                            context.timestep),
                      result |-> TRUE]
                ELSE [time |-> t, result |-> FALSE]

\* [time |-> the clock afterwards, result |-> the value returned]
expend_time(t) ==
    LET context == t.context
        sub == checked_sub(context.overstep, context.timestep)
        result == CASE context.mode.tag = "Paused" -> FALSE
                    [] context.mode.tag = "OneTick" -> TRUE
                    [] context.mode.tag = "Running" -> sub # <<>>
        after == CASE context.mode.tag = "Paused" -> t
                   [] context.mode.tag = "OneTick" ->
                        [t EXCEPT !.context.mode = Paused,
                                  !.context.overstep = 0]
                   [] context.mode.tag = "Running" ->
                        IF sub # <<>>
                        THEN [t EXCEPT !.context.overstep = sub[1]]
                        ELSE t
    IN  [time   |-> IF result THEN advance_by(after, context.timestep) ELSE after,
         result |-> result]

\* a limit_overstep that lets one more timestep through
limit_overstep_four(t) ==
    [t EXCEPT !.context.overstep = Min(@, t.context.timestep * 4)]

limit_overstep(t) ==
    [t EXCEPT !.context.overstep = Min(@, t.context.timestep * 3)]

\* a budget check that lets a run of exactly the budget pass
budget_spent_strict(e) == e > MAX_PHYSICS_EXEC_TIME

\* line 158: time.elapsed() >= MAX_PHYSICS_EXEC_TIME
budget_spent(e) == e >= MAX_PHYSICS_EXEC_TIME

----------------------------------------------------------------------------
(* The physics_fps diagnostic.  A sample is the exact quotient <<n, d>> in *)
(* lowest terms; the f64 quotients of the deltas drawn here are exact.     *)

RECURSIVE GCD(_, _)
GCD(a, b) == IF b = 0 THEN a ELSE GCD(b, a % b)

Rat(n, d) == LET g == GCD(IF n < 0 THEN -n ELSE n, d) IN <<n \div g, d \div g>>

RatAdd(a, b) == Rat(a[1] * b[2] + b[1] * a[2], a[2] * b[2])

RatSub(a, b) == Rat(a[1] * b[2] - b[1] * a[2], a[2] * b[2])

\* Diagnostic::new(PHYSICS_FPS, "physics_fps", 10)
Diagnostic_new == [history |-> <<>>, sum |-> Rat(0, 1)]

\* Diagnostic::add_measurement: the oldest sample leaves a full history
add_measurement(st, value) ==
    LET full == Len(st.history) >= MAX_HISTORY_LENGTH
        kept == IF full THEN Tail(st.history) ELSE st.history
        rest == IF full THEN RatSub(st.sum, Head(st.history)) ELSE st.sum
    IN  [history |-> Append(kept, value), sum |-> RatAdd(rest, value)]

\* Diagnostic::average: <<a>> is Some(a), <<>> is None
average(st) ==
    IF st.history = <<>> THEN <<>>
    ELSE <<Rat(st.sum[1], st.sum[2] * Len(st.history))>>

\* a sample that is the bare count
Sample_count(fc, d) == Rat(fc, 1)

\* frame_count.0 as f64 / delta, for delta > 0 nanoseconds
Sample(fc, d) ==
    LET g == GCD(NANOS_PER_SEC, d) IN Rat(fc * (NANOS_PER_SEC \div g), d \div g)

diagnosics_count(fc) == fc + 1

\* a diagnostics_report without the guard on a delta of zero, which measures
\* such a frame as one of a second
diagnostics_report_unguarded(fc, d) ==
    [frame_count |-> 0, queued |-> <<Sample(fc, IF d = 0 THEN NANOS_PER_SEC ELSE d)>>]

\* diagnostics_report in a frame of delta d: the counter afterwards and the
\* measurement queued for the DiagnosticsStore, <<>> when there is none
diagnostics_report(fc, d) ==
    IF d = 0
    THEN [frame_count |-> fc, queued |-> <<>>]
    ELSE [frame_count |-> 0, queued |-> <<Sample(fc, d)>>]

\* the queued measurement reaches the Diagnostic when the buffer is applied
apply_buffer(st, q) == IF q = <<>> THEN st ELSE add_measurement(st, q[1])

\* the measurements behind store.history after that call
Record(rec, fc, d) ==
    LET all == Append(rec, <<fc, d>>) IN
    IF d = 0 THEN rec
    ELSE IF Len(all) > MAX_HISTORY_LENGTH THEN Tail(all) ELSE all

\* the counter after n runs of PhysicsSchedule
RECURSIVE Counted(_, _)
Counted(fc, n) == IF n = 0 THEN fc ELSE Counted(diagnosics_count(fc), n - 1)

----------------------------------------------------------------------------
(* Initial state: the resources as TimePlugin::build initialises them, and *)
(* the RestartEvent sent by spawn_scene at Startup                         *)

Init ==
    /\ time = PhysicsTime_default
    /\ events = TRUE
    /\ frame_count = 0
    /\ queued = <<>>
    /\ store = Diagnostic_new
    /\ pc = "PreUpdate"
    /\ delta = 0
    /\ spent = 0
    /\ frames = 0
    /\ last = "init"
    /\ pre = PhysicsTime_default
    /\ steps = 0
    /\ costs = <<>>
    /\ runs = 0
    /\ last_run = <<>>
    /\ recorded = <<>>
    /\ after_tick = "none"

----------------------------------------------------------------------------
(* PreUpdate: reset_scene, then run_physics_schedule *)

\* a reset that puts back the context and keeps the elapsed time
reset_time_context_only(t) ==
    resume([t EXCEPT !.context = PhysicsTimeInner_default])

\* main.rs lines 117-118: *time = PhysicsTime::default(); time.resume()
reset_time(t) == resume(PhysicsTime_default)

reset_scene ==
    /\ pc \in {"PreUpdate", "ui"}
    /\ frames < MaxFrames
    /\ frames' = frames + 1
    /\ pc' = "run_physics_schedule"
    /\ IF events
       THEN /\ events' = FALSE
            /\ time' = reset_time(time)
            /\ pre' = time
            /\ runs' = 0
            /\ last_run' = <<>>
            /\ last' = "reset"
            /\ after_tick' = "none"
       ELSE /\ UNCHANGED <<events, time, pre, runs, last_run, after_tick>>
            /\ last' = "noreset"
    /\ UNCHANGED <<frame_count, queued, store, delta, spent, steps, costs, recorded>>

\* lines 151-154 in a frame of delta d: read the delta, accumulate, take
\* the Instant
run_physics_schedule_accumulate_delta(d) ==
    /\ pc = "run_physics_schedule"
    /\ delta' = d
    /\ IF accumulate_time_panics(time, d)
       THEN /\ pc' = "panicked"
            /\ time' = time
       ELSE /\ pc' = "expend_time"
            /\ time' = accumulate_time(time, d)
    /\ pre' = time
    /\ spent' = 0
    /\ steps' = 0
    /\ costs' = <<>>
    /\ last' = "accumulate_time"
    /\ UNCHANGED <<events, frame_count, queued, store, frames, runs, last_run, recorded,
                   after_tick>>

run_physics_schedule_accumulate ==
    \E d \in Deltas : run_physics_schedule_accumulate_delta(d)

\* line 156: the loop condition
run_physics_schedule_expend ==
    /\ pc = "expend_time"
    /\ time' = expend_time(time).time
    /\ pc' = IF expend_time(time).result THEN "schedule" ELSE "limit_overstep"
    /\ last' = "expend_time"
    /\ after_tick' = IF mode = OneTick /\ after_tick = "stepped"
                     THEN "ticked" ELSE after_tick
    /\ UNCHANGED <<events, frame_count, queued, store, delta, spent, frames, pre,
                   steps, costs, runs, last_run, recorded>>

\* lines 157-158: one run of PhysicsSchedule (diagnosics_count is in it),
\* then the check of the wall time spent
run_physics_schedule_run ==
    /\ pc = "schedule"
    /\ frame_count' = diagnosics_count(frame_count)
    /\ \E c \in RunCosts :
          /\ spent' = spent + c
          /\ costs' = Append(costs, c)
          /\ pc' = IF budget_spent(spent + c)
                   THEN "limit_overstep" ELSE "expend_time"
    /\ steps' = steps + 1
    /\ runs' = runs + 1
    /\ last' = "schedule"
    /\ UNCHANGED <<time, events, queued, store, delta, frames, pre, last_run, recorded,
                   after_tick>>

\* line 157 when a system of PhysicsSchedule calls a command of
\* PhysicsTimeExt: the clock is a resource of the world the schedule runs on
SystemCommands == {"pause", "resume", "step", "run"}

run_physics_schedule_run_command(command, speed) ==
    /\ pc = "schedule"
    /\ frame_count' = diagnosics_count(frame_count)
    /\ time' = CASE command = "pause" -> pause(time)
                [] command = "resume" -> resume(time)
                [] command = "step" -> step(time)
                [] command = "run" -> run(time, speed)
    /\ last_run' = IF command = "run" THEN <<speed>> ELSE last_run
    /\ \E c \in RunCosts :
          /\ spent' = spent + c
          /\ costs' = Append(costs, c)
          /\ pc' = IF budget_spent(spent + c)
                   THEN "limit_overstep" ELSE "expend_time"
    /\ steps' = steps + 1
    /\ runs' = runs + 1
    /\ last' = command
    /\ after_tick' = "none"
    /\ UNCHANGED <<events, queued, store, delta, frames, pre, recorded>>

\* line 160
run_physics_schedule_limit ==
    /\ pc = "limit_overstep"
    /\ time' = limit_overstep(time)
    /\ pc' = "Update"
    /\ last' = "limit_overstep"
    /\ UNCHANGED <<events, frame_count, queued, store, delta, spent, frames, pre,
                   steps, costs, runs, last_run, recorded, after_tick>>

----------------------------------------------------------------------------
(* Update: diagnostics_report, and the commands of the control surface.    *)
(* The DiagnosticsStore, which receives the queued measurement when the    *)
(* buffer is applied, is followed in SpecDiag below.                       *)

DiagnosticsReport ==
    /\ pc = "Update"
    /\ frame_count' = diagnostics_report(frame_count, delta).frame_count
    /\ queued' = diagnostics_report(frame_count, delta).queued
    /\ pc' = "ui"
    /\ delta' = 0
    /\ spent' = 0
    /\ steps' = 0
    /\ costs' = <<>>
    /\ pre' = time
    /\ last' = "diagnostics_report"
    /\ after_tick' = IF after_tick = "resumed" THEN "none" ELSE after_tick
    /\ UNCHANGED <<time, events, store, frames, runs, last_run, recorded>>

\* where a command leaves after_tick: step() on a Running clock with time
\* left over starts the sequence, resume() after the tick continues it, and
\* any other command ends it
after_command(command) ==
    CASE command = "step" ->
            IF mode.tag = "Running" /\ overstep > 0 THEN "stepped" ELSE "none"
      [] command = "resume" ->
            IF after_tick = "ticked" THEN "resumed" ELSE "none"
      [] OTHER -> "none"

Pause ==
    /\ pc = "ui"
    /\ time' = pause(time)
    /\ last' = "pause"
    /\ after_tick' = after_command(last')
    /\ UNCHANGED <<events, frame_count, queued, store, pc, delta, spent, frames, pre,
                   steps, costs, runs, last_run, recorded>>

Resume ==
    /\ pc = "ui"
    /\ time' = resume(time)
    /\ last' = "resume"
    /\ after_tick' = after_command(last')
    /\ UNCHANGED <<events, frame_count, queued, store, pc, delta, spent, frames, pre,
                   steps, costs, runs, last_run, recorded>>

Step ==
    /\ pc = "ui"
    /\ time' = step(time)
    /\ last' = "step"
    /\ after_tick' = after_command(last')
    /\ UNCHANGED <<events, frame_count, queued, store, pc, delta, spent, frames, pre,
                   steps, costs, runs, last_run, recorded>>

Run(speed) ==
    /\ pc = "ui"
    /\ time' = run(time, speed)
    /\ last' = "run"
    /\ last_run' = <<speed>>
    /\ after_tick' = after_command(last')
    /\ UNCHANGED <<events, frame_count, queued, store, pc, delta, spent, frames, pre,
                   steps, costs, runs, recorded>>

Icons == {"ICON_RESTART", "ICON_PAUSE", "ICON_STEP", "ICON_PLAY", "ICON_FASTFWD"}

\* ui.rs lines 177-209: the icon clicked or whose key was pressed
display_custom_window(icon) ==
    /\ pc = "ui"
    /\ CASE icon = "ICON_RESTART" ->
              /\ events' = TRUE
              /\ time' = pause(time)
              /\ last' = "pause"
              /\ UNCHANGED last_run
         [] icon = "ICON_PAUSE" ->
              /\ IF mode = Paused
                 THEN time' = resume(time) /\ last' = "resume"
                 ELSE time' = pause(time) /\ last' = "pause"
              /\ UNCHANGED <<events, last_run>>
         [] icon = "ICON_STEP" ->
              /\ time' = step(time)
              /\ last' = "step"
              /\ UNCHANGED <<events, last_run>>
         [] icon = "ICON_PLAY" ->
              /\ IF mode = Running(Fin(2))
                 THEN time' = pause(time) /\ last' = "pause" /\ UNCHANGED last_run
                 ELSE /\ time' = run(time, Fin(2))
                      /\ last' = "run"
                      /\ last_run' = <<Fin(2)>>
              /\ UNCHANGED events
         [] icon = "ICON_FASTFWD" ->
              /\ IF mode = Running(INFINITY)
                 THEN time' = pause(time) /\ last' = "pause" /\ UNCHANGED last_run
                 ELSE /\ time' = run(time, INFINITY)
                      /\ last' = "run"
                      /\ last_run' = <<INFINITY>>
              /\ UNCHANGED events
    /\ after_tick' = after_command(last')
    /\ UNCHANGED <<frame_count, queued, store, pc, delta, spent, frames, pre, steps,
                   costs, runs, recorded>>

Next ==
    \/ reset_scene
    \/ run_physics_schedule_accumulate
    \/ run_physics_schedule_expend
    \/ run_physics_schedule_run
    \/ run_physics_schedule_limit
    \/ DiagnosticsReport
    \/ Pause
    \/ Resume
    \/ Step
    \/ \E speed \in Speeds : Run(speed)
    \/ \E icon \in Icons : display_custom_window(icon)

Spec == Init /\ [][Next]_vars

\* run_physics_schedule is straight-line code around one loop: once called
\* it goes on to its next statement
SpecFair ==
    /\ Spec
    /\ WF_vars(run_physics_schedule_accumulate)
    /\ WF_vars(run_physics_schedule_expend)
    /\ WF_vars(run_physics_schedule_run)
    /\ WF_vars(run_physics_schedule_limit)

\* the host frames with a system in PhysicsSchedule that changes the mode of
\* the clock during a run (none of the systems main.rs adds does), and no
\* command from the control surface
NextCommand ==
    \/ reset_scene
    \/ run_physics_schedule_accumulate
    \/ run_physics_schedule_expend
    \/ run_physics_schedule_run
    \/ run_physics_schedule_limit
    \/ DiagnosticsReport
    \/ \E command \in SystemCommands : \E speed \in {Fin(4), INFINITY} :
          run_physics_schedule_run_command(command, speed)

SpecCommand == Init /\ [][NextCommand]_vars

\* the host frames with deltas that Duration::mul_f32 rounds, at the speed
\* 1.0 of the default clock
NextUneven ==
    \/ reset_scene
    \/ \E d \in UnevenDeltas : run_physics_schedule_accumulate_delta(d)
    \/ run_physics_schedule_expend
    \/ run_physics_schedule_run
    \/ run_physics_schedule_limit
    \/ DiagnosticsReport

SpecUneven == Init /\ [][NextUneven]_vars

----------------------------------------------------------------------------
(* The diagnostic alone: host frames in which PhysicsSchedule ran n times, *)
(* each followed by diagnostics_report and the application of its buffer   *)

\* <<runs of PhysicsSchedule in the frame, delta of the frame>>
DiagInputs == {<<60, NANOS_PER_SEC>>, <<30, NANOS_PER_SEC \div 2>>, <<30, 0>>}

DiagFrame(n, d) ==
    \E counted \in {Counted(frame_count, n)} :
    \E report \in {diagnostics_report(counted, d)} :
        /\ counted <= MaxDiagCount
        /\ frame_count' = report.frame_count
        /\ queued' = report.queued
        /\ store' = apply_buffer(store, report.queued)
        /\ recorded' = Record(recorded, counted, d)
        /\ UNCHANGED <<time, events, pc, delta, spent, frames, last, pre,
                       steps, costs, runs, last_run, after_tick>>

DiagNext == \E in \in DiagInputs : DiagFrame(in[1], in[2])

SpecDiag == Init /\ [][DiagNext]_vars

----------------------------------------------------------------------------
(* Properties *)

\* the virtual time the call in progress had to spend after accumulate_time
Available ==
    IF pre.context.mode.tag = "Running"
    THEN IF pre.context.mode.speed = INFINITY
         THEN DURATION_MAX
         ELSE pre.context.overstep + mul_f32(delta, pre.context.mode.speed)
    ELSE pre.context.overstep

\* C1: at the end of every run_physics_schedule call, that is after
\* limit_overstep and until the next call accumulates, the overstep is
\* between 0 and 3 timesteps
C1_OverstepBound ==
    pc \in {"Update", "ui", "run_physics_schedule"} =>
        (0 <= overstep /\ overstep <= 3 * timestep)

\* a call has ended whose accumulated time, less the steps run, was above
\* 3 timesteps
C1_Witness ==
    /\ pc = "Update"
    /\ pre.context.mode = Running(Fin(4))
    /\ Available - steps * timestep > 3 * timestep
    /\ overstep = 3 * timestep

\* C2: the elapsed time is the timestep times the number of runs of the
\* physics schedule since the last reset (the run in progress counted); it
\* changes by one timestep with every expend_time that returns true, and
\* otherwise only when a reset puts it back to zero
C2_StepQuantization ==
    /\ [](elapsed = (runs + (IF pc = "schedule" THEN 1 ELSE 0)) * timestep)
    /\ [][IF pc = "expend_time" /\ pc' = "schedule"
          THEN elapsed' = elapsed + timestep
          ELSE elapsed' = elapsed \/ (last' = "reset" /\ elapsed' = 0)]_vars

\* a frame in which the schedule ran three times has ended
C2_Witness ==
    /\ pc = "Update"
    /\ steps = 3
    /\ elapsed = 3 * timestep

\* C3: a run_physics_schedule call entered in OneTick, the mode step()
\* leaves, runs the physics schedule exactly once and ends Paused
C3_OneTickExact ==
    (pc = "Update" /\ pre.context.mode = OneTick) =>
        (steps = 1 /\ mode = Paused)

\* step() was called on a clock running at infinite speed with time left
\* over, and the call that followed, in a frame of four timesteps, has ended
C3_Witness ==
    /\ pc = "Update"
    /\ pre.context.mode = OneTick
    /\ pre.context.old_mode = Running(INFINITY)
    /\ pre.context.overstep = 3 * timestep
    /\ delta = 4 * timestep
    /\ steps = 1
    /\ mode = Paused

\* C4: resume() after run(s), whatever pause(), step(), resume() and host
\* frames came in between (no other run(), no reset), leaves the mode
\* Running{s}
C4_ResumeRestoresRate ==
    (last = "resume" /\ last_run # <<>>) => mode = Running(last_run[1])

\* run(2.0), then a frame that ended Paused, then resume()
C4_Witness ==
    /\ last = "resume"
    /\ last_run = <<Fin(4)>>
    /\ pre.context.mode = Paused
    /\ pre.elapsed > 0
    /\ mode = Running(Fin(4))

\* C5: a run_physics_schedule call entered in Paused runs the physics
\* schedule zero times and leaves the clock, overstep and elapsed time
\* included, as it was; pause() on a Paused clock changes no field of it
C5_PauseFreezes ==
    /\ []((pc = "Update" /\ pre.context.mode = Paused) =>
              (steps = 0 /\ time = pre))
    /\ [][(mode = Paused /\ last' = "pause") => time' = time]_vars

\* a frame of four timesteps has ended on a clock paused with time left over
C5_Witness ==
    /\ pc = "Update"
    /\ pre.context.mode = Paused
    /\ pre.context.overstep > 0
    /\ pre.elapsed > 0
    /\ delta = 4 * timestep
    /\ last = "limit_overstep"

\* the call in progress has run the schedule only in runs that took at
\* least MAX_PHYSICS_EXEC_TIME
AllRunsSlow == \A i \in DOMAIN costs : costs[i] >= MAX_PHYSICS_EXEC_TIME

\* the virtual time left unconsumed by the call in progress
Remaining ==
    IF pre.context.mode = OneTick THEN 0 ELSE Available - steps * timestep

\* C6: a call all of whose runs of the physics schedule took at least
\* MAX_PHYSICS_EXEC_TIME has run it at most once, in any mode, and leaves
\* as overstep the unconsumed virtual time, capped at 3 timesteps
C6_Backpressure ==
    (pc = "Update" /\ AllRunsSlow) =>
        (steps <= 1 /\ overstep = Min(Remaining, 3 * timestep))

\* at infinite speed one slow run has ended the call
C6_Witness ==
    /\ pc = "Update"
    /\ costs = <<MAX_PHYSICS_EXEC_TIME>>
    /\ pre.context.mode = Running(INFINITY)
    /\ steps = 1
    /\ overstep = 3 * timestep

\* C7: once reset_scene has processed a restart event the elapsed time and
\* the overstep are zero and the mode and the remembered mode Running{1.0}
C7_ResetSemantics ==
    last = "reset" =>
        /\ elapsed = 0
        /\ overstep = 0
        /\ mode = Running(Fin(2))
        /\ old_mode = Running(Fin(2))

\* the restart found a paused clock that had run, held time left over and
\* remembered the infinite speed
C7_Witness ==
    /\ last = "reset"
    /\ pre.context.mode = Paused
    /\ pre.context.old_mode = Running(INFINITY)
    /\ pre.context.overstep > 0
    /\ pre.elapsed > 0
    /\ time = resume(PhysicsTime_default)

\* C8: accumulate_time never fails, for any delta and any speed
C8_NeverPanics == pc # "panicked"

\* C9: the remembered running mode is always a Running mode, and so the
\* mode resume() leaves is one
C9_OldModeRunning ==
    /\ old_mode.tag = "Running"
    /\ last = "resume" => mode.tag = "Running"

\* resume() on a Paused clock that has run and remembers the infinite speed
C9_Witness ==
    /\ last = "resume"
    /\ pre.context.mode = Paused
    /\ pre.context.old_mode = Running(INFINITY)
    /\ steps = 0
    /\ runs > 0
    /\ mode = Running(INFINITY)

RatDiv(a, b) == Rat(a[1] * b[2], a[2] * b[1])

\* the sum of steps / seconds over the measurements rec
RECURSIVE SumOfSamples(_)
SumOfSamples(rec) ==
    IF rec = <<>> THEN Rat(0, 1)
    ELSE RatAdd(RatDiv(Rat(rec[1][1], 1), Rat(rec[1][2], NANOS_PER_SEC)),
                SumOfSamples(Tail(rec)))

\* C10: the average of physics_fps is the arithmetic mean of steps / frame
\* seconds over the measurements in the window and is absent when there is
\* none; (60 steps, 1.0 s) then (30 steps, 0.5 s) average to 60
C10_DiagnosticAverage ==
    /\ Len(store.history) = Len(recorded)
    /\ average(store) =
          IF recorded = <<>> THEN <<>>
          ELSE <<RatDiv(SumOfSamples(recorded), Rat(Len(recorded), 1))>>
    /\ recorded = <<<<60, NANOS_PER_SEC>>, <<30, NANOS_PER_SEC \div 2>>>>
          => average(store) = <<Rat(60, 1)>>

\* (60 steps, 1.0 s) then (30 steps, 0.5 s) have been recorded
C10_Witness ==
    /\ recorded = <<<<60, NANOS_PER_SEC>>, <<30, NANOS_PER_SEC \div 2>>>>
    /\ store.history = <<Rat(60, 1), Rat(60, 1)>>
    /\ average(store) = <<Rat(60, 1)>>

\* C11: a host frame of duration zero adds no sample to the physics_fps
\* window, whose history and sum stay as they were, and queues none;
\* diagnostics_report has no failing outcome
C11_ZeroDurationGuard ==
    [][(\E in \in DiagInputs : in[2] = 0 /\ DiagFrame(in[1], in[2])) =>
           (store' = store /\ queued' = <<>>)]_vars

\* two measurements are in the window and a frame of duration zero, in
\* which the schedule ran 30 times, has been reported after them
C11_Witness ==
    /\ Len(store.history) = 2
    /\ recorded = <<<<60, NANOS_PER_SEC>>, <<30, NANOS_PER_SEC \div 2>>>>
    /\ frame_count = 30
    /\ queued = <<>>

\* C12: the count diagnostics_report divides by the duration of a host frame
\* is the number of runs of the physics schedule in that frame's
\* run_physics_schedule call, whatever frames came before
C12_SampleCountsFrame ==
    (pc = "Update" /\ delta > 0) => frame_count = steps

\* C13: once reset_scene has processed a restart sent by the control surface,
\* which pauses the clock as it sends the event, the clock is Paused, so
\* that the scene starts frozen (the restart of the first frame is the one
\* spawn_scene sends at startup)
C13_RestartStartsFrozen ==
    (last = "reset" /\ frames > 1) => mode = Paused

\* C14 with delta * s as Duration::mul_f32 returns it: a run_physics_schedule
\* call entered in Running{s} with s finite finds an overstep of at most 3
\* timesteps, left by the frame before, and runs the physics schedule at
\* most floor((that overstep + delta.mul_f32(s)) / timestep) times, which
\* is at most 3 runs more than the delta of the frame alone pays for
C14_BoundedCatchUp ==
    (/\ pc \in {"expend_time", "schedule", "limit_overstep", "Update"}
     /\ pre.context.mode.tag = "Running"
     /\ pre.context.mode.speed # INFINITY) =>
        /\ pre.context.overstep <= 3 * timestep
        /\ steps <= Available \div timestep
        /\ steps <= mul_f32(delta, pre.context.mode.speed) \div timestep + 3

\* a frame of delta zero found 3 timesteps left over by a throttled frame
\* and ran the schedule 3 times
C14_Witness ==
    /\ pc = "Update"
    /\ pre.context.mode = Running(Fin(2))
    /\ pre.context.overstep = 3 * timestep
    /\ delta = 0
    /\ steps = 3
    /\ overstep = 0

\* the wall time spent by the call in progress before its last run
SpentBeforeLastRun == spent - costs[Len(costs)]

\* C15: every run_physics_schedule call that reaches its loop ends; it has
\* then run the physics schedule zero times if entered Paused, once if
\* entered in OneTick, at most floor(overstep / timestep) times, for the
\* overstep after accumulate_time, if entered Running at a finite speed,
\* and if entered Running at infinite speed it left the loop after the
\* first run that brought the wall time spent to MAX_PHYSICS_EXEC_TIME
C15_CallTerminates ==
    /\ (pc = "expend_time") ~> (pc = "Update")
    /\ [](pc = "Update" =>
            CASE pre.context.mode = Paused -> steps = 0
              [] pre.context.mode = OneTick -> steps = 1
              [] pre.context.mode.speed # INFINITY ->
                    steps <= Available \div timestep
              [] OTHER ->
                    /\ steps >= 1
                    /\ spent >= MAX_PHYSICS_EXEC_TIME
                    /\ SpentBeforeLastRun < MAX_PHYSICS_EXEC_TIME)
    /\ [](pc \in {"expend_time", "schedule"} => spent < MAX_PHYSICS_EXEC_TIME)

\* a call at infinite speed has ended after four runs of a quarter of the
\* budget each
C15_Witness ==
    /\ pc = "Update"
    /\ pre.context.mode = Running(INFINITY)
    /\ steps = 4
    /\ spent = MAX_PHYSICS_EXEC_TIME
    /\ delta = 0

\* C16: a run_physics_schedule call entered in Running{+infinity} is granted
\* a run by every expend_time it makes, whatever the delta of the frame and
\* the overstep it found; it ends only when the wall time spent has reached
\* MAX_PHYSICS_EXEC_TIME, and leaves an overstep of exactly 3 timesteps
C16_InfiniteSpeed ==
    pre.context.mode = Running(INFINITY) =>
        /\ pc = "expend_time" => expend_time(time).result
        /\ pc \in {"limit_overstep", "Update"} =>
              (steps >= 1 /\ spent >= MAX_PHYSICS_EXEC_TIME)
        /\ pc = "Update" =>
              (overstep = 3 * timestep /\ mode = Running(INFINITY))

\* a frame of delta zero, entered at infinite speed with no time left over,
\* has ended after four runs of the schedule
C16_Witness ==
    /\ pc = "Update"
    /\ pre.context.mode = Running(INFINITY)
    /\ pre.context.overstep = 0
    /\ delta = 0
    /\ steps = 4
    /\ overstep = 3 * timestep

\* C17 as stated: the call that consumes a OneTick leaves the overstep at
\* zero; and after step() on a Running clock with time left over, the tick
\* and resume(), a frame of delta zero runs the physics schedule zero times
C17_TickDiscardsOverstep ==
    /\ (pc \in {"schedule", "limit_overstep", "Update"} /\ pre.context.mode = OneTick)
          => overstep = 0
    /\ (pc = "Update" /\ after_tick = "resumed" /\ delta = 0) => steps = 0

\* C17, amended: the same, for a clock whose remembered speed is finite (at
\* infinite speed resume() brings back a mode that runs whatever the delta)
C17_TickDiscardsOverstepFinite ==
    /\ (pc \in {"schedule", "limit_overstep", "Update"} /\ pre.context.mode = OneTick)
          => overstep = 0
    /\ (/\ pc = "Update"
        /\ after_tick = "resumed"
        /\ delta = 0
        /\ pre.context.mode.speed # INFINITY) => (steps = 0 /\ overstep = 0)

\* step() found the clock Running at speed 2.0 with time left over; the
\* tick, resume() and a frame of delta zero followed
C17_Witness ==
    /\ pc = "Update"
    /\ after_tick = "resumed"
    /\ delta = 0
    /\ pre.context.mode = Running(Fin(4))
    /\ pre.elapsed > timestep
    /\ steps = 0

\* C18: the remembered running mode changes only when run(speed) is called,
\* to Running{speed}, and when a restart is processed, to Running{1.0};
\* pause(), step(), resume() and every step of run_physics_schedule, the
\* flip from OneTick to Paused included, leave it as it is
C18_OldModeChanges ==
    [][/\ old_mode' # old_mode => last' \in {"run", "reset"}
       /\ last' = "run" => old_mode' = Running(last_run'[1])
       /\ last' = "reset" => old_mode' = Running(Fin(2))
       /\ last' \in {"pause", "step", "resume", "noreset", "accumulate_time",
                     "expend_time", "schedule", "limit_overstep",
                     "diagnostics_report"} => old_mode' = old_mode]_vars

\* run(+infinity), step(), and the call that consumed the tick and left the
\* clock Paused: the infinite speed is still remembered
C18_Witness ==
    /\ pc = "Update"
    /\ pre.context.mode = OneTick
    /\ mode = Paused
    /\ last_run = <<INFINITY>>
    /\ old_mode = Running(INFINITY)

\* C19: on a Running clock expend_time returns true, takes exactly one
\* timestep off the overstep and adds it to the elapsed time if the overstep
\* is at least the timestep; otherwise it returns false and leaves the
\* clock (overstep, elapsed time and mode) as it was
C19_ExpendRunning ==
    [][(pc = "expend_time" /\ mode.tag = "Running") =>
           IF overstep >= timestep
           THEN /\ pc' = "schedule"
                /\ overstep' = overstep - timestep
                /\ elapsed' = elapsed + timestep
                /\ mode' = mode
           ELSE /\ pc' = "limit_overstep"
                /\ time' = time]_vars

\* expend_time has returned true on an overstep of one and a half timesteps
\* and then false on the half timestep left
C19_Witness ==
    /\ pc = "limit_overstep"
    /\ last = "expend_time"
    /\ mode = Running(Fin(4))
    /\ steps = 1
    /\ 2 * overstep = timestep
    /\ elapsed = runs * timestep

\* C20: a run of the physics schedule during which the mode is changed
\* completes and is counted (by the step counters and in the elapsed time,
\* which expend_time advanced when it granted the run), and the change acts
\* at the next expend_time: after pause() that call returns false and
\* leaves the clock alone, so that no further run happens in the frame, and
\* after step() it grants one run and leaves the clock Paused; the overstep
\* is at most 3 timesteps at the end of the frame
C20_ModeChangeDuringRun ==
    /\ [][(pc = "schedule" /\ last' \in SystemCommands) =>
             /\ steps' = steps + 1
             /\ runs' = runs + 1
             /\ frame_count' = frame_count + 1
             /\ elapsed' = elapsed
             /\ elapsed' = runs' * timestep
             /\ overstep' = overstep
             /\ pc' \in {"expend_time", "limit_overstep"}]_vars
    /\ [][(pc = "expend_time" /\ last = "pause") =>
             (pc' = "limit_overstep" /\ time' = time)]_vars
    /\ [][(pc = "expend_time" /\ last = "step") =>
             (pc' = "schedule" /\ mode' = Paused /\ overstep' = 0)]_vars
    /\ [](pc \in {"Update", "ui", "run_physics_schedule"} =>
             overstep <= 3 * timestep)

\* a frame of four timesteps at speed 1.0 has ended after one run, during
\* which the clock was paused: the run is counted, and the three timesteps
\* left are kept
C20_Witness ==
    /\ pc = "Update"
    /\ pre.context.mode = Running(Fin(2))
    /\ delta = 4 * timestep
    /\ costs = <<MAX_PHYSICS_EXEC_TIME \div 4>>
    /\ mode = Paused
    /\ steps = 1
    /\ elapsed = runs * timestep
    /\ overstep = 3 * timestep

\* delta * s of the call in progress, for a finite speed
ExactProduct ==
    IF pre.context.mode.speed.k = "fin"
    THEN (delta * pre.context.mode.speed.q) \div 2
    ELSE 0

\* C14: a run_physics_schedule call entered in Running{s} with s finite
\* finds an overstep of at most 3 timesteps and runs the physics schedule
\* at most floor((that overstep + delta * s) / timestep) times, which is at
\* most 3 runs more than delta * s alone pays for
C14_BoundedCatchUpExact ==
    (/\ pc \in {"expend_time", "schedule", "limit_overstep", "Update"}
     /\ pre.context.mode.tag = "Running"
     /\ pre.context.mode.speed # INFINITY) =>
        /\ pre.context.overstep <= 3 * timestep
        /\ steps <= (pre.context.overstep + ExactProduct) \div timestep
        /\ steps <= ExactProduct \div timestep + 3

\* C21: when the loop of a call entered in Running{s}, s finite, is left
\* because expend_time returned false, not by the wall-time break, the
\* overstep is below a timestep, limit_overstep changes nothing, and the
\* elapsed time plus the overstep is what it was when the call was entered
\* plus exactly delta * s
C21_VirtualTimeConserved ==
    (/\ pc = "limit_overstep"
     /\ last = "expend_time"
     /\ pre.context.mode.tag = "Running"
     /\ pre.context.mode.speed # INFINITY) =>
        /\ overstep < timestep
        /\ limit_overstep(time) = time
        /\ elapsed + overstep = pre.elapsed + pre.context.overstep + ExactProduct

\* the same with the product as Duration::mul_f32 returns it
C21_ConservedAsAccumulated ==
    (/\ pc = "limit_overstep"
     /\ last = "expend_time"
     /\ pre.context.mode.tag = "Running"
     /\ pre.context.mode.speed # INFINITY) =>
        /\ overstep < timestep
        /\ limit_overstep(time) = time
        /\ elapsed + overstep = pre.elapsed + Available

\* the elapsed time plus the overstep falls only with the clamp after a
\* wall-time break, the consumption of a OneTick and a reset
C21_LostOnlyBy ==
    [][elapsed' + overstep' < elapsed + overstep =>
          \/ last' = "reset"
          \/ last' = "expend_time" /\ mode = OneTick
          \/ last' = "limit_overstep" /\ last = "schedule"]_vars

====
